---- MODULE Spec2Model ----
(***************************************************************************)
(* Model of GitHubRepoShop (src/src/index.ts, first class, lines 1-419):   *)
(* the identifier codec, the path filter, the snapshot fetcher and the     *)
(* update() cycle.  Strings are sequences of one-character strings, so     *)
(* that replace / startsWith / slice / indexOf are computed as the code    *)
(* computes them.                                                          *)
(***************************************************************************)
EXTENDS Integers, Sequences, FiniteSets, TLC

----------------------------------------------------------------------------
(* Bounds of the model *)

\* largest number of blobs in the remote tree
MaxFiles == 2
\* largest number of records the host supplies
MaxPrior == 2
\* longest path given to the identifier codec
MaxPathLen == 3

----------------------------------------------------------------------------
(* String helpers (JavaScript String methods used by the code) *)

\* s.replace(/from/g, to) for a one-character pattern
ReplaceAll(s, from, to) ==
    [i \in 1..Len(s) |-> IF s[i] = from THEN to ELSE s[i]]

\* s.startsWith(p)
StartsWith(s, p) ==
    /\ Len(p) <= Len(s)
    /\ \A i \in 1..Len(p) : s[i] = p[i]

\* s.slice(n) / s.substring(n), n counted from 0
SliceFrom(s, n) ==
    IF n >= Len(s) THEN <<>> ELSE SubSeq(s, n + 1, Len(s))

\* s.indexOf(c), counted from 0, -1 when absent
IndexOf(s, c) ==
    IF \E i \in 1..Len(s) : s[i] = c
    THEN (CHOOSE i \in 1..Len(s) : s[i] = c /\ \A j \in 1..(i - 1) : s[j] # c) - 1
    ELSE -1

\* the literal 'github-repo-'
GithubRepo == <<"g","i","t","h","u","b","-","r","e","p","o","-">>

----------------------------------------------------------------------------
(* Identifier codec *)

\* `github-repo-${owner}-${repo}-`
IdPrefix(owner, repo) == GithubRepo \o owner \o <<"-">> \o repo \o <<"-">>

\* fileId built in getCurrentFiles
FileId(owner, repo, path) ==
    IdPrefix(owner, repo) \o ReplaceAll(path, "/", "-")

\* fileIdToPath that throws for every identifier without the prefix
fileIdToPathStrict(owner, repo, fileId) ==
    LET prefix == IdPrefix(owner, repo) IN
    IF ~StartsWith(fileId, prefix)
    THEN [ok |-> FALSE, path |-> <<>>]
    ELSE [ok |-> TRUE,
          path |-> ReplaceAll(SliceFrom(fileId, Len(prefix)), "-", "/")]

\* fileIdToPath without the reverse substitution
fileIdToPathNoReplace(owner, repo, fileId) ==
    LET prefix == IdPrefix(owner, repo) IN
    IF ~StartsWith(fileId, prefix)
    THEN [ok |-> FALSE, path |-> <<>>]
    ELSE [ok |-> TRUE, path |-> SliceFrom(fileId, Len(prefix))]

\* fileIdToPath: [ok |-> TRUE, path |-> p] on return, [ok |-> FALSE] on throw
fileIdToPath(owner, repo, fileId) ==
    LET prefix == IdPrefix(owner, repo) IN
    IF ~StartsWith(fileId, prefix)
    THEN LET possiblePath ==
                 ReplaceAll(SliceFrom(fileId, IndexOf(fileId, "-") + 1), "-", "/")
         IN  IF Len(possiblePath) > 0
             THEN [ok |-> TRUE, path |-> possiblePath]
             ELSE [ok |-> FALSE, path |-> <<>>]
    ELSE [ok |-> TRUE,
          path |-> ReplaceAll(SliceFrom(fileId, Len(prefix)), "-", "/")]

----------------------------------------------------------------------------
(* Path filter *)

\* the segments of s between occurrences of sep
RECURSIVE SplitOn(_, _)
SplitOn(s, sep) ==
    LET k == IndexOf(s, sep) IN
    IF k = -1 THEN <<s>>
    ELSE <<SubSeq(s, 1, k)>> \o SplitOn(SliceFrom(s, k + 1), sep)

\* one path segment against one pattern segment; '*' is any run of characters
RECURSIVE MatchSegment(_, _)
MatchSegment(s, p) ==
    IF p = <<>> THEN s = <<>>
    ELSE IF Head(p) = "*"
         THEN \/ MatchSegment(s, Tail(p))
              \/ (s # <<>> /\ MatchSegment(Tail(s), p))
         ELSE s # <<>> /\ Head(s) = Head(p) /\ MatchSegment(Tail(s), Tail(p))

\* segments of a path against segments of a pattern; '**' is any run of
\* directories
RECURSIVE MatchSegments(_, _)
MatchSegments(ss, ps) ==
    IF ps = <<>> THEN ss = <<>>
    ELSE IF Head(ps) = <<"*","*">>
         THEN \/ MatchSegments(ss, Tail(ps))
              \/ (ss # <<>> /\ MatchSegments(Tail(ss), ps))
         ELSE /\ ss # <<>>
              /\ Head(ss) # <<>>
              /\ MatchSegment(Head(ss), Head(ps))
              /\ MatchSegments(Tail(ss), Tail(ps))

\* minimatch(path, pattern, { dot: true })
minimatch(path, pattern) ==
    MatchSegments(SplitOn(path, "/"), SplitOn(pattern, "/"))

\* a pattern option of the configuration: not set, one string, or an array
\* of strings
NotConfigured == [kind |-> "unset", patterns |-> <<>>]
OnePattern(p) == [kind |-> "string", patterns |-> <<p>>]
PatternArray(ps) == [kind |-> "array", patterns |-> ps]

\* the default of includePatterns
MatchAll == <<"*","*","/","*">>

\* shouldInclude with the include list winning over the ignore list
shouldIncludeIncludeWins(config, path) ==
    LET includePatterns ==
            IF config.include.kind = "array" THEN config.include.patterns
            ELSE IF config.include.kind = "string" /\ config.include.patterns[1] # <<>>
                 THEN config.include.patterns
                 ELSE << MatchAll >>
        ignorePatterns ==
            IF config.ignore.kind = "array" THEN config.ignore.patterns
            ELSE IF config.ignore.kind = "string" /\ config.ignore.patterns[1] # <<>>
                 THEN config.ignore.patterns
                 ELSE <<>>
        isIncluded == \E i \in 1..Len(includePatterns) :
                          minimatch(path, includePatterns[i])
        isIgnored == \E i \in 1..Len(ignorePatterns) :
                          minimatch(path, ignorePatterns[i])
    IN  isIncluded \/ ~isIgnored

\* shouldInclude: an array is taken as it is, a non-empty string as a list of
\* one pattern, anything else as the default
shouldInclude(config, path) ==
    LET includePatterns ==
            IF config.include.kind = "array" THEN config.include.patterns
            ELSE IF config.include.kind = "string" /\ config.include.patterns[1] # <<>>
                 THEN config.include.patterns
                 ELSE << MatchAll >>
        ignorePatterns ==
            IF config.ignore.kind = "array" THEN config.ignore.patterns
            ELSE IF config.ignore.kind = "string" /\ config.ignore.patterns[1] # <<>>
                 THEN config.ignore.patterns
                 ELSE <<>>
        isIncluded == \E i \in 1..Len(includePatterns) :
                          minimatch(path, includePatterns[i])
        isIgnored == \E i \in 1..Len(ignorePatterns) :
                          minimatch(path, ignorePatterns[i])
    IN  isIncluded /\ ~isIgnored

----------------------------------------------------------------------------
(* Content annotator *)

\* new Date(d).toISOString(): the ISO-8601 text of an instant
ToISOString(d) == <<"iso", d>>

\* the raw content of a blob: the text of `path` as of revision `rev`
RawContent(path, rev) ==
    [annotated |-> FALSE, owner |-> <<>>, repo |-> <<>>, path |-> <<>>,
     sha |-> <<"none", 0>>, date |-> <<"none", 0>>,
     body |-> [path |-> path, rev |-> rev]]

\* the absent content of a delete operation
NoContent == RawContent(<<>>, -1)

\* formatFileContentWithHeader: header (owner/repo, path, permalink of
\* commitSha, ISO date), then the raw content, then the footer
formatFileContentWithHeader(config, rawContent, pathInRepo, commitSha, commitDate) ==
    [annotated |-> TRUE,
     owner     |-> config.owner,
     repo      |-> config.repo,
     path      |-> pathInRepo,
     sha       |-> commitSha,
     date      |-> ToISOString(commitDate),
     body      |-> rawContent.body]

----------------------------------------------------------------------------
(* Maps (JavaScript objects used as dictionaries) *)

EmptyMap == [k \in {} |-> 0]

Put(m, k, v) == [x \in (DOMAIN m) \cup {k} |-> IF x = k THEN v ELSE m[x]]

Has(m, k) == k \in DOMAIN m

----------------------------------------------------------------------------
(* Inputs: configurations, remote states, host records *)

Owner == <<"o">>
Repo == <<"r">>

\* paths of blobs a remote tree may hold
PathAB == <<"a","/","b">>
PathAhB == <<"a","-","b">>
PathC == <<"c">>
PathPool == {PathAB, PathAhB, PathC}

\* paths of the scenarios of the specification
PathReadme == <<"R","E","A","D","M","E",".","m","d">>
PathDocsX == <<"d","o","c","s","/","x",".","m","d">>
PathDraftsY == <<"d","r","a","f","t","s","/","y",".","m","d">>
PathZ == <<"z",".","t","x","t">>

\* every entry a recursive tree listing may return, in git's order (a
\* directory is listed as soon as it holds a blob)
TreeOrder ==
    << [path |-> PathReadme, type |-> "blob"],
       [path |-> PathAhB, type |-> "blob"],
       [path |-> <<"a">>, type |-> "tree"],
       [path |-> PathAB, type |-> "blob"],
       [path |-> PathC, type |-> "blob"],
       [path |-> <<"d","o","c","s">>, type |-> "tree"],
       [path |-> PathDocsX, type |-> "blob"],
       [path |-> <<"d","r","a","f","t","s">>, type |-> "tree"],
       [path |-> PathDraftsY, type |-> "blob"],
       [path |-> PathZ, type |-> "blob"] >>

\* timestamps of the commits of the remote, in milliseconds
CommitStamps == {1, 2}

\* the newest of them: the author date of the branch head
HeadDate == CHOOSE t \in CommitStamps : \A u \in CommitStamps : u <= t

\* the update interval init() derives from the configuration: longer than the
\* age of any commit
IntervalMs == HeadDate + 1

\* the configurations init() may leave behind
ConfigPool ==
    { [owner |-> Owner, repo |-> Repo, updateIntervalMs |-> IntervalMs,
       shouldIncludeHeader |-> h, include |-> NotConfigured,
       ignore |-> NotConfigured] :
         h \in BOOLEAN }
    \cup
    { [owner |-> Owner, repo |-> Repo, updateIntervalMs |-> IntervalMs,
       shouldIncludeHeader |-> TRUE,
       include |-> PatternArray(<< MatchAll >>), ignore |-> OnePattern(PathC)] }

\* remote calls that may fail (getTree with a 404 or with another error,
\* getBranch, getCommit, getBlob of a path, listCommits of a path) or answer
\* without the data asked for (a head commit without author date, an empty
\* commit list for a path)
FaultPool(files) ==
    { <<"getTree404", <<>> >>, <<"getTreeErr", <<>> >>,
      <<"getBranch", <<>> >>, <<"getCommit", <<>> >>, <<"noHeadDate", <<>> >> }
    \cup { <<k, p>> : k \in {"getBlob", "listCommits", "noHistory"},
                      p \in DOMAIN files }

\* a remote state: the blobs of the tree with the timestamp of the last commit
\* of each, and the call that fails, if any
RemotePool ==
    UNION { { [files |-> f, faults |-> x] :
                x \in {{}} \cup { {y} : y \in FaultPool(f) } } :
            f \in UNION { [S -> CommitStamps] :
                          S \in {T \in SUBSET PathPool : Cardinality(T) <= MaxFiles} } }

\* identifiers the host may hold: those of the pool's paths and three that
\* lack the prefix: one with a path after its first '-', one with nothing
\* after it, one without any '-'
ForeignC == <<"x","-","c">>
ForeignEmpty == <<"x","-">>
ForeignBare == <<"c">>
PriorIdPool ==
    { FileId(Owner, Repo, p) : p \in PathPool }
    \cup {ForeignC, ForeignEmpty, ForeignBare}

\* timestamps the host may hold for an identifier
PriorStamps == {1}

PriorPool ==
    UNION { [S -> PriorStamps] :
              S \in {T \in SUBSET PriorIdPool : Cardinality(T) <= MaxPrior} }

----------------------------------------------------------------------------
(* Remote collaborator (Octokit), as seen through the wrappers of the class *)

Fails(r, kind, path) == <<kind, path>> \in r.faults

\* getRepoTree with the failure of the listing swallowed: an empty tree
getRepoTreeSwallowed(r) ==
    IF Fails(r, "getTree404", <<>>) \/ Fails(r, "getTreeErr", <<>>)
    THEN [ok |-> TRUE, tree |-> <<>>]
    ELSE [ok |-> TRUE,
          tree |-> SelectSeq(TreeOrder,
                     LAMBDA item :
                       \/ item.type = "blob" /\ item.path \in DOMAIN r.files
                       \/ item.type = "tree" /\
                            \E f \in DOMAIN r.files :
                                StartsWith(f, item.path \o <<"/">>))]

\* getRepoTree: the entries of the recursive listing, or a throw
getRepoTree(r) ==
    IF Fails(r, "getTree404", <<>>) \/ Fails(r, "getTreeErr", <<>>)
    THEN [ok |-> FALSE, tree |-> <<>>]
    ELSE [ok |-> TRUE,
          tree |-> SelectSeq(TreeOrder,
                     LAMBDA item :
                       \/ item.type = "blob" /\ item.path \in DOMAIN r.files
                       \/ item.type = "tree" /\
                            \E f \in DOMAIN r.files :
                                StartsWith(f, item.path \o <<"/">>))]

\* fetchBlobContent: the raw content of the blob of `path`
fetchBlobContent(r, path) == RawContent(path, r.files[path])

\* sha of the branch head and of the last commit of a path
HeadSha == <<"head", 0>>
CommitSha(ts) == <<"commit", ts>>

\* getBranchInfo: {sha, date} of the branch head, or a throw; without an
\* author date the current time is used
getBranchInfo(r, clock) ==
    IF Fails(r, "getBranch", <<>>) \/ Fails(r, "getCommit", <<>>)
    THEN [ok |-> FALSE, sha |-> HeadSha, date |-> 0]
    ELSE IF Fails(r, "noHeadDate", <<>>)
         THEN [ok |-> TRUE, sha |-> HeadSha, date |-> clock]
         ELSE [ok |-> TRUE, sha |-> HeadSha, date |-> HeadDate]

\* getLastCommitInfoForFile: {sha, timestamp}, or null when the lookup fails or
\* the path has no history
getLastCommitInfoForFile(r, path) ==
    IF Fails(r, "listCommits", path) \/ Fails(r, "noHistory", path)
       \/ path \notin DOMAIN r.files
    THEN [ok |-> FALSE, sha |-> CommitSha(0), timestamp |-> 0]
    ELSE [ok |-> TRUE, sha |-> CommitSha(r.files[path]),
          timestamp |-> r.files[path]]

----------------------------------------------------------------------------
(* The synchronous parts of getCurrentFiles and update *)

\* the gate with an inclusive comparison
IntervalNotReachedInclusive(nowv, lastUsedv, intervalMs) ==
    nowv - lastUsedv <= intervalMs

\* the interval gate of update: TRUE when the cycle is skipped
IntervalNotReached(nowv, lastUsedv, intervalMs) == nowv - lastUsedv < intervalMs

\* filesToInclude of getCurrentFiles
FilesToInclude(config, tree) ==
    SelectSeq(tree, LAMBDA item : item.type = "blob" /\ shouldInclude(config, item.path))

\* the files object when the first failing fetch ends the collection
RECURSIVE BuildFilesUntilFailure(_, _, _)
BuildFilesUntilFailure(config, items, results) ==
    IF items = <<>> THEN <<>>
    ELSE LET path == Head(items).path
         IN  IF results[path].ok
             THEN << [path |-> path,
                      fileId |-> FileId(config.owner, config.repo, path),
                      rawContent |-> results[path].rawContent] >>
                  \o BuildFilesUntilFailure(config, Tail(items), results)
             ELSE <<>>

\* the files object of getCurrentFiles: the entries whose fetch succeeded, in
\* the order of filesToInclude (the paths of a tree are distinct)
RECURSIVE BuildFiles(_, _, _)
BuildFiles(config, items, results) ==
    IF items = <<>> THEN <<>>
    ELSE LET path == Head(items).path
             rest == BuildFiles(config, Tail(items), results)
         IN  IF results[path].ok
             THEN << [path |-> path,
                      fileId |-> FileId(config.owner, config.repo, path),
                      rawContent |-> results[path].rawContent] >> \o rest
             ELSE rest

\* Object.keys(currentFiles)
PathsOf(files) == { files[i].path : i \in 1..Len(files) }

\* currentFiles[path]
FileAt(files, path) == files[CHOOSE i \in 1..Len(files) : files[i].path = path]

\* existingPaths / existingFileIds / the deletes of the identifiers whose
\* decoding threw
MapExisting(config, existing) ==
    LET decoded == [id \in DOMAIN existing |->
                       fileIdToPath(config.owner, config.repo, id)]
        good == {id \in DOMAIN existing : decoded[id].ok}
    IN  [existingPaths |-> [id \in good |-> decoded[id].path],
         existingFileIds |-> good,
         thrown |-> (DOMAIN existing) \ good]

\* the delete phase skipped when the snapshot is empty
DeletedIdsUnlessEmpty(ids, paths, currentFilePaths) ==
    IF currentFilePaths = {} THEN {}
    ELSE {id \in ids : paths[id] \notin currentFilePaths}

\* 1. Identify deleted files: the identifiers that get a delete
DeletedIds(ids, paths, currentFilePaths) ==
    {id \in ids : paths[id] \notin currentFilePaths}

\* content of an added file with the header written whenever it is enabled
AddContentAlwaysHeader(config, info, path, rawContent) ==
    IF config.shouldIncludeHeader
    THEN formatFileContentWithHeader(config, rawContent, path, info.sha, info.date)
    ELSE rawContent

\* content of an added file
AddContent(config, info, path, rawContent) ==
    IF config.shouldIncludeHeader /\ info.ok
    THEN formatFileContentWithHeader(config, rawContent, path, info.sha, info.date)
    ELSE rawContent

\* 2. Identify added files: the operations written, in the order of the loop
RECURSIVE AddedOps(_, _, _, _)
AddedOps(config, info, files, ids) ==
    IF files = <<>> THEN <<>>
    ELSE LET f == Head(files)
             rest == AddedOps(config, info, Tail(files), ids)
         IN  IF f.fileId \notin ids
             THEN << [fileId |-> f.fileId, action |-> "add",
                      content |-> AddContent(config, info, f.path, f.rawContent)] >>
                  \o rest
             ELSE rest

\* 3. filesToCheckForUpdate
FilesToCheck(ids, upd, paths, files) ==
    {id \in ids :
        /\ ~Has(upd, id)
        /\ paths[id] \in PathsOf(files)
        /\ FileAt(files, paths[id]).fileId = id}

\* one element of checkPromises with a missing commit info taken as a change
CheckFileNullIsChange(config, fileId, path, lastIndexedTimestamp, commitInfo, files) ==
    IF ~commitInfo.ok \/ commitInfo.timestamp > lastIndexedTimestamp
    THEN [found |-> TRUE, fileId |-> fileId, action |-> "update",
          content |-> IF config.shouldIncludeHeader
                      THEN formatFileContentWithHeader(config,
                               FileAt(files, path).rawContent, path,
                               commitInfo.sha, commitInfo.timestamp)
                      ELSE FileAt(files, path).rawContent]
    ELSE [found |-> FALSE, fileId |-> fileId, action |-> "none",
          content |-> NoContent]

\* one element of checkPromises with the comparison turned round
CheckFileOlder(config, fileId, path, lastIndexedTimestamp, commitInfo, files) ==
    IF commitInfo.ok /\ commitInfo.timestamp < lastIndexedTimestamp
    THEN [found |-> TRUE, fileId |-> fileId, action |-> "update",
          content |-> IF config.shouldIncludeHeader
                      THEN formatFileContentWithHeader(config,
                               FileAt(files, path).rawContent, path,
                               commitInfo.sha, commitInfo.timestamp)
                      ELSE FileAt(files, path).rawContent]
    ELSE [found |-> FALSE, fileId |-> fileId, action |-> "none",
          content |-> NoContent]

\* one element of checkPromises: the update found for fileId, or null
CheckFile(config, fileId, path, lastIndexedTimestamp, commitInfo, files) ==
    IF commitInfo.ok /\ commitInfo.timestamp > lastIndexedTimestamp
    THEN [found |-> TRUE, fileId |-> fileId, action |-> "update",
          content |-> IF config.shouldIncludeHeader
                      THEN formatFileContentWithHeader(config,
                               FileAt(files, path).rawContent, path,
                               commitInfo.sha, commitInfo.timestamp)
                      ELSE FileAt(files, path).rawContent]
    ELSE [found |-> FALSE, fileId |-> fileId, action |-> "none",
          content |-> NoContent]

\* updates[fileId] = {action, content} for a sequence of operations, in order
RECURSIVE ApplyOps(_, _)
ApplyOps(upd, ops) ==
    IF ops = <<>> THEN upd
    ELSE ApplyOps(Put(upd, Head(ops).fileId,
                      [action |-> Head(ops).action, content |-> Head(ops).content]),
                  Tail(ops))

----------------------------------------------------------------------------
(* State *)

VARIABLES
    config,           \* this.config and the fields init() derives from it
    remote,           \* the repository at GitHub
    existingFiles,    \* the host's records: fileId -> last updated timestamp
    lastUsed,         \* argument of update
    now,              \* Date.now() of the running call
    mode,             \* the running call is the "first", a "repeat" of the first
                      \* with the same arguments, or follows a first call
                      \* whose operations the host has "applied"
    prevResult,       \* what the previous call returned
    pc,               \* position of the running call
    filesToInclude,   \* getCurrentFiles: the filtered blobs of the tree
    fetchResults,     \* getCurrentFiles: resolved fetchPromises, by path
    fetchOrder,       \* getCurrentFiles: the paths in the order their
                      \* fetchPromises resolved, until Promise.all resolves
    currentFiles,     \* update: the snapshot, in insertion order
    branchInfo,       \* update: the pre-fetched branch info, or null
    existingPaths,    \* update: fileId -> decoded path
    existingFileIds,  \* update: the identifiers still under consideration
    updates,          \* update: the operation map being built
    filesToCheck,     \* update: filesToCheckForUpdate
    checkResults,     \* update: resolved checkPromises, by fileId
    result,           \* the operation map the call returned
    calls,            \* number of remote calls of the running call, by call
    opLog,            \* phases that wrote updates[fileId], in order, by fileId
    codec             \* two paths, their identifiers and the decoded paths

vars == <<config, remote, existingFiles, lastUsed, now, mode, prevResult,
          pc, filesToInclude, fetchResults, fetchOrder, currentFiles, branchInfo,
          existingPaths, existingFileIds, updates, filesToCheck, checkResults,
          result, calls, opLog, codec>>

inputs == <<config, remote, existingFiles, lastUsed, now, mode, prevResult,
            codec>>

NullInfo == [ok |-> FALSE, sha |-> HeadSha, date |-> 0]

\* one more remote call of kind `kind` about `path`
Called(c, kind, path) ==
    Put(c, <<kind, path>>, IF Has(c, <<kind, path>>) THEN c[<<kind, path>>] + 1 ELSE 1)

\* one more write of updates[fileId] by `phase`
Logged(log, ids, phase) ==
    [id \in (DOMAIN log) \cup ids |->
        (IF Has(log, id) THEN log[id] ELSE <<>>)
        \o (IF id \in ids THEN <<phase>> ELSE <<>>)]

RECURSIVE LoggedOps(_, _)
LoggedOps(log, ops) ==
    IF ops = <<>> THEN log
    ELSE LoggedOps(Logged(log, {Head(ops).fileId}, Head(ops).action), Tail(ops))

\* the locals of a call before it starts
FreshCall ==
    /\ pc' = "call"
    /\ filesToInclude' = <<>>
    /\ fetchResults' = EmptyMap
    /\ fetchOrder' = <<>>
    /\ currentFiles' = <<>>
    /\ branchInfo' = NullInfo
    /\ existingPaths' = EmptyMap
    /\ existingFileIds' = {}
    /\ updates' = EmptyMap
    /\ filesToCheck' = {}
    /\ checkResults' = EmptyMap
    /\ result' = EmptyMap
    /\ calls' = EmptyMap
    /\ opLog' = EmptyMap

\* the codec is not exercised on its own
CodecIdle ==
    [step |-> "idle", p |-> <<>>, q |-> <<>>, idP |-> <<>>, idQ |-> <<>>,
     decP |-> [ok |-> FALSE, path |-> <<>>]]

Init ==
    /\ config \in ConfigPool
    /\ remote \in RemotePool
    /\ existingFiles \in PriorPool
    /\ lastUsed = 0
    /\ now \in {config.updateIntervalMs - 1, config.updateIntervalMs}
    /\ mode = "first"
    /\ prevResult = EmptyMap
    /\ pc = "call"
    /\ filesToInclude = <<>>
    /\ fetchResults = EmptyMap
    /\ fetchOrder = <<>>
    /\ currentFiles = <<>>
    /\ branchInfo = NullInfo
    /\ existingPaths = EmptyMap
    /\ existingFileIds = {}
    /\ updates = EmptyMap
    /\ filesToCheck = {}
    /\ checkResults = EmptyMap
    /\ result = EmptyMap
    /\ calls = EmptyMap
    /\ opLog = EmptyMap
    /\ codec = CodecIdle

----------------------------------------------------------------------------
(* update(lastUsed, existingFiles), step by step *)

\* the interval gate
UpdateGate ==
    /\ pc = "call"
    /\ IF IntervalNotReached(now, lastUsed, config.updateIntervalMs)
       THEN pc' = "done"
       ELSE pc' = "getTree"
    /\ UNCHANGED <<inputs, fetchOrder, filesToInclude, fetchResults, currentFiles, branchInfo,
                   existingPaths, existingFileIds, updates, filesToCheck,
                   checkResults, result, calls, opLog>>

\* getCurrentFiles: list the tree and filter it; update throws when the
\* listing throws
ListTree ==
    /\ pc = "getTree"
    /\ calls' = Called(calls, "getTree", <<>>)
    /\ LET listing == getRepoTree(remote) IN
       IF ~listing.ok
       THEN /\ pc' = "failed"
            /\ UNCHANGED filesToInclude
       ELSE /\ filesToInclude' = FilesToInclude(config, listing.tree)
            /\ pc' = IF Len(filesToInclude') = 0 THEN "branchInfo" ELSE "fetch"
    /\ UNCHANGED <<inputs, fetchOrder, fetchResults, currentFiles, branchInfo,
                   existingPaths, existingFileIds, updates, filesToCheck,
                   checkResults, result, opLog>>

\* getCurrentFiles: one of the fetchPromises resolves
FetchBlob ==
    /\ pc = "fetch"
    /\ \E i \in 1..Len(filesToInclude) :
         LET path == filesToInclude[i].path IN
         /\ ~Has(fetchResults, path)
         /\ calls' = Called(calls, "getBlob", path)
         /\ fetchResults' =
              Put(fetchResults, path,
                  IF Fails(remote, "getBlob", path)
                  THEN [ok |-> FALSE, rawContent |-> NoContent]
                  ELSE [ok |-> TRUE, rawContent |-> fetchBlobContent(remote, path)])
         /\ fetchOrder' = Append(fetchOrder, path)
    /\ UNCHANGED <<inputs, pc, filesToInclude, currentFiles, branchInfo,
                   existingPaths, existingFileIds, updates, filesToCheck,
                   checkResults, result, opLog>>

\* the files object filled in the order in which the fetchPromises resolved
BuildSnapshotInCompletionOrder ==
    /\ pc = "fetch"
    /\ \A i \in 1..Len(filesToInclude) : Has(fetchResults, filesToInclude[i].path)
    /\ currentFiles' =
         BuildFiles(config,
                    [i \in 1..Len(fetchOrder) |-> [path |-> fetchOrder[i], type |-> "blob"]],
                    fetchResults)
    /\ fetchOrder' = <<>>
    /\ pc' = "branchInfo"
    /\ UNCHANGED <<inputs, filesToInclude, fetchResults, branchInfo,
                   existingPaths, existingFileIds, updates, filesToCheck,
                   checkResults, result, calls, opLog>>

\* getCurrentFiles: Promise.all has resolved, the files object is built
BuildSnapshot ==
    /\ pc = "fetch"
    /\ \A i \in 1..Len(filesToInclude) : Has(fetchResults, filesToInclude[i].path)
    /\ currentFiles' = BuildFiles(config, filesToInclude, fetchResults)
    /\ fetchOrder' = <<>>
    /\ pc' = "branchInfo"
    /\ UNCHANGED <<inputs, filesToInclude, fetchResults, branchInfo,
                   existingPaths, existingFileIds, updates, filesToCheck,
                   checkResults, result, calls, opLog>>

\* pre-fetch of the branch info when headers are enabled
PrefetchBranchInfo ==
    /\ pc = "branchInfo"
    /\ IF config.shouldIncludeHeader
       THEN /\ branchInfo' = getBranchInfo(remote, now)
            /\ calls' = IF Fails(remote, "getBranch", <<>>)
                        THEN Called(calls, "getBranch", <<>>)
                        ELSE Called(Called(calls, "getBranch", <<>>), "getCommit", <<>>)
       ELSE UNCHANGED <<branchInfo, calls>>
    /\ pc' = "map"
    /\ UNCHANGED <<inputs, fetchOrder, filesToInclude, fetchResults, currentFiles,
                   existingPaths, existingFileIds, updates, filesToCheck,
                   checkResults, result, opLog>>

\* the mapping of the identifiers with the undecodable ones removed from the
\* host's records themselves
MapExistingIdsInPlace ==
    /\ pc = "map"
    /\ LET m == MapExisting(config, existingFiles) IN
       /\ existingPaths' = m.existingPaths
       /\ existingFileIds' = m.existingFileIds
       /\ existingFiles' = [id \in m.existingFileIds |-> existingFiles[id]]
       /\ updates' = [id \in m.thrown |-> [action |-> "delete", content |-> NoContent]]
       /\ opLog' = Logged(opLog, m.thrown, "orphan")
    /\ pc' = "delete"
    /\ UNCHANGED <<config, remote, lastUsed, now, mode, prevResult, codec,
                   fetchOrder, filesToInclude, fetchResults, currentFiles,
                   branchInfo, filesToCheck, checkResults, result, calls>>

\* map existing fileIds to paths; an identifier whose decoding throws is
\* marked as deleted and leaves existingFileIds
MapExistingIds ==
    /\ pc = "map"
    /\ LET m == MapExisting(config, existingFiles) IN
       /\ existingPaths' = m.existingPaths
       /\ existingFileIds' = m.existingFileIds
       /\ updates' = [id \in m.thrown |-> [action |-> "delete", content |-> NoContent]]
       /\ opLog' = Logged(opLog, m.thrown, "orphan")
    /\ pc' = "delete"
    /\ UNCHANGED <<inputs, fetchOrder, filesToInclude, fetchResults, currentFiles, branchInfo,
                   filesToCheck, checkResults, result, calls>>

\* 1. Identify deleted files
IdentifyDeleted ==
    /\ pc = "delete"
    /\ LET gone == DeletedIds(existingFileIds, existingPaths, PathsOf(currentFiles)) IN
       /\ updates' = [id \in (DOMAIN updates) \cup gone |->
                        IF id \in gone
                        THEN [action |-> "delete", content |-> NoContent]
                        ELSE updates[id]]
       /\ opLog' = Logged(opLog, gone, "delete")
    /\ pc' = "add"
    /\ UNCHANGED <<inputs, fetchOrder, filesToInclude, fetchResults, currentFiles, branchInfo,
                   existingPaths, existingFileIds, filesToCheck, checkResults,
                   result, calls>>

\* 2. Identify added files and prepare content
IdentifyAdded ==
    /\ pc = "add"
    /\ LET ops == AddedOps(config, branchInfo, currentFiles, existingFileIds) IN
       /\ updates' = ApplyOps(updates, ops)
       /\ opLog' = LoggedOps(opLog, ops)
    /\ pc' = "select"
    /\ UNCHANGED <<inputs, fetchOrder, filesToInclude, fetchResults, currentFiles, branchInfo,
                   existingPaths, existingFileIds, filesToCheck, checkResults,
                   result, calls>>

\* 3. Check existing files for updates: choose the files to check; without
\* any, update returns
SelectFilesToCheck ==
    /\ pc = "select"
    /\ filesToCheck' = FilesToCheck(existingFileIds, updates, existingPaths, currentFiles)
    /\ IF filesToCheck' = {}
       THEN /\ result' = updates
            /\ pc' = "done"
       ELSE /\ pc' = "check"
            /\ UNCHANGED result
    /\ UNCHANGED <<inputs, fetchOrder, filesToInclude, fetchResults, currentFiles, branchInfo,
                   existingPaths, existingFileIds, updates, checkResults,
                   calls, opLog>>

\* one of the checkPromises resolves
CheckOneFile ==
    /\ pc = "check"
    /\ \E fileId \in filesToCheck :
         LET path == existingPaths[fileId] IN
         /\ ~Has(checkResults, fileId)
         /\ calls' = Called(calls, "listCommits", path)
         /\ checkResults' =
              Put(checkResults, fileId,
                  CheckFile(config, fileId, path, existingFiles[fileId],
                            getLastCommitInfoForFile(remote, path), currentFiles))
    /\ UNCHANGED <<inputs, fetchOrder, pc, filesToInclude, fetchResults, currentFiles,
                   branchInfo, existingPaths, existingFileIds, updates,
                   filesToCheck, result, opLog>>

\* Promise.all has resolved: apply the updates found and return
ApplyUpdates ==
    /\ pc = "check"
    /\ \A fileId \in filesToCheck : Has(checkResults, fileId)
    /\ LET found == {fileId \in filesToCheck : checkResults[fileId].found} IN
       /\ updates' = [id \in (DOMAIN updates) \cup found |->
                        IF id \in found
                        THEN [action |-> "update",
                              content |-> checkResults[id].content]
                        ELSE updates[id]]
       /\ opLog' = Logged(opLog, found, "update")
    /\ result' = updates'
    /\ pc' = "done"
    /\ UNCHANGED <<inputs, fetchOrder, filesToInclude, fetchResults, currentFiles, branchInfo,
                   existingPaths, existingFileIds, filesToCheck, checkResults,
                   calls>>

----------------------------------------------------------------------------
(* The host between two calls *)

\* the cycle that has just returned passed the gate
Passed == ~IntervalNotReached(now, lastUsed, config.updateIntervalMs)

\* the host calls update again with the same arguments, later
CallAgain ==
    /\ pc = "done"
    /\ Passed
    /\ mode = "first"
    /\ mode' = "repeat"
    /\ prevResult' = result
    /\ now' = now + 1
    /\ FreshCall
    /\ UNCHANGED <<config, remote, existingFiles, lastUsed, codec>>

\* the timestamp the host records for an accepted add or update: the time of
\* the run, or the commit timestamp the cycle observed for an update
Stamp(how, id) ==
    IF how = "commit" /\ Has(checkResults, id) /\ checkResults[id].found
    THEN getLastCommitInfoForFile(remote, existingPaths[id]).timestamp
    ELSE now

\* the host's records after it has accepted every operation of `ops`
HostRecords(existing, ops, how) ==
    [id \in ((DOMAIN existing) \cup {i \in DOMAIN ops : ops[i].action # "delete"})
            \ {i \in DOMAIN ops : ops[i].action = "delete"} |->
        IF Has(ops, id) THEN Stamp(how, id) ELSE existing[id]]

\* the host applies the returned operations and runs the next cycle once the
\* interval has elapsed
HostApply ==
    /\ pc = "done"
    /\ Passed
    /\ mode = "first"
    /\ mode' = "applied"
    /\ prevResult' = result
    /\ \E how \in {"now", "commit"} :
         existingFiles' = HostRecords(existingFiles, result, how)
    /\ lastUsed' = now
    /\ now' = now + config.updateIntervalMs
    /\ FreshCall
    /\ UNCHANGED <<config, remote, codec>>

Next ==
    \/ UpdateGate
    \/ ListTree
    \/ FetchBlob
    \/ BuildSnapshot
    \/ PrefetchBranchInfo
    \/ MapExistingIds
    \/ IdentifyDeleted
    \/ IdentifyAdded
    \/ SelectFilesToCheck
    \/ CheckOneFile
    \/ ApplyUpdates
    \/ CallAgain
    \/ HostApply

Spec == Init /\ [][Next]_vars

TypeOK ==
    /\ pc \in {"call", "getTree", "fetch", "branchInfo", "map", "delete", "add",
               "select", "check", "done", "failed"}
    /\ mode \in {"first", "repeat", "applied"}

----------------------------------------------------------------------------
(* The identifier codec on its own: every source of SourcePool, every pair  *)
(* of paths of CodecPaths                                                   *)

CodecChars == {"a", "-", "/"}

\* a path of a git tree: non-empty segments separated by '/'
ValidPath(s) ==
    /\ Len(s) >= 1
    /\ s[1] # "/"
    /\ s[Len(s)] # "/"
    /\ \A i \in 1..(Len(s) - 1) : ~(s[i] = "/" /\ s[i + 1] = "/")

CodecPaths ==
    {s \in UNION { [1..n -> CodecChars] : n \in 1..MaxPathLen } : ValidPath(s)}

\* owners and repository names, with and without '-'
SourcePool ==
    { <<o, r>> : o \in { <<"o">>, <<"o","-","x">> },
                 r \in { <<"r">>, <<"x","-","r">> } }

InitCodec ==
    /\ config \in { [owner |-> src[1], repo |-> src[2],
                     updateIntervalMs |-> IntervalMs, shouldIncludeHeader |-> TRUE,
                     include |-> <<>>, ignore |-> <<>>] : src \in SourcePool }
    /\ codec \in { [step |-> "init", p |-> p, q |-> q, idP |-> <<>>, idQ |-> <<>>,
                    decP |-> [ok |-> FALSE, path |-> <<>>]] :
                   p \in CodecPaths, q \in CodecPaths }
    /\ remote = [files |-> EmptyMap, faults |-> {}]
    /\ existingFiles = EmptyMap
    /\ lastUsed = 0
    /\ now = 0
    /\ mode = "first"
    /\ prevResult = EmptyMap
    /\ pc = "codec"
    /\ filesToInclude = <<>>
    /\ fetchResults = EmptyMap
    /\ fetchOrder = <<>>
    /\ currentFiles = <<>>
    /\ branchInfo = NullInfo
    /\ existingPaths = EmptyMap
    /\ existingFileIds = {}
    /\ updates = EmptyMap
    /\ filesToCheck = {}
    /\ checkResults = EmptyMap
    /\ result = EmptyMap
    /\ calls = EmptyMap
    /\ opLog = EmptyMap

nonCodec == <<config, remote, existingFiles, lastUsed, now, mode,
              prevResult, pc, filesToInclude, fetchResults, fetchOrder, currentFiles,
              branchInfo, existingPaths, existingFileIds, updates, filesToCheck,
              checkResults, result, calls, opLog>>

\* the identifiers getCurrentFiles gives the two paths
CodecEncode ==
    /\ codec.step = "init"
    /\ codec' = [codec EXCEPT !.step = "encoded",
                              !.idP = FileId(config.owner, config.repo, codec.p),
                              !.idQ = FileId(config.owner, config.repo, codec.q)]
    /\ UNCHANGED nonCodec

\* fileIdToPath on the identifier of the first path
CodecDecode ==
    /\ codec.step = "encoded"
    /\ codec' = [codec EXCEPT !.step = "decoded",
                              !.decP = fileIdToPath(config.owner, config.repo, codec.idP)]
    /\ UNCHANGED nonCodec

NextCodec == CodecEncode \/ CodecDecode

SpecCodec == InitCodec /\ [][NextCodec]_vars

----------------------------------------------------------------------------
(* The cycle on the scenarios of the specification: a filtered tree, and    *)
(* the one file README.md of the source a/b                                 *)

\* the patterns of the filter scenario
MdAnywhere == <<"*","*","/","*",".","m","d">>
DraftsAll == <<"d","r","a","f","t","s","/","*","*">>
TopLevel == <<"*">>

\* include / ignore as the configuration may give them: not at all, as one
\* string (the empty string included), as an array (the empty array included)
IncludeOptions ==
    { NotConfigured, OnePattern(<<>>), OnePattern(MdAnywhere),
      PatternArray(<<>>), PatternArray(<<MdAnywhere>>),
      PatternArray(<<TopLevel, DraftsAll>>) }
IgnoreOptions ==
    { NotConfigured, OnePattern(<<>>), OnePattern(DraftsAll),
      PatternArray(<<>>), PatternArray(<<DraftsAll>>),
      PatternArray(<<TopLevel, DraftsAll>>) }

\* the timestamps of the update scenario, in milliseconds
ScenarioStamps == {1000, 2000}
ScenarioHead == CHOOSE t \in ScenarioStamps : \A u \in ScenarioStamps : u <= t
OlderStamp == CHOOSE t \in ScenarioStamps : t # ScenarioHead

FilterConfigs ==
    { [owner |-> Owner, repo |-> Repo, updateIntervalMs |-> ScenarioHead + 1,
       shouldIncludeHeader |-> FALSE, include |-> i, ignore |-> g] :
         i \in IncludeOptions, g \in IgnoreOptions }

FilterRemotes ==
    UNION { { [files |-> f, faults |-> x] :
                x \in {{}} \cup { {<<"getBlob", p>>} : p \in DOMAIN f } } :
            f \in UNION { [S -> {ScenarioHead}] :
                          S \in SUBSET {PathDocsX, PathDraftsY, PathZ} } }

\* the source a/b without filter
ReadmeConfigs ==
    { [owner |-> <<"a">>, repo |-> <<"b">>, updateIntervalMs |-> ScenarioHead + 1,
       shouldIncludeHeader |-> FALSE, include |-> NotConfigured,
       ignore |-> NotConfigured] }

ReadmeRemotes ==
    UNION { { [files |-> f, faults |-> x] :
                x \in {{}} \cup { {y} : y \in FaultPool(f) } } :
            f \in UNION { [S -> ScenarioStamps] : S \in SUBSET {PathReadme} } }

\* the identifier the specification's scenario records for README.md, and the
\* one getCurrentFiles gives it
ScenarioId ==
    <<"r","e","p","o","-","a","-","b","-","r","e","a","d","m","e","-","m","d">>
ReadmeId ==
    <<"g","i","t","h","u","b","-","r","e","p","o","-","a","-","b","-",
      "R","E","A","D","M","E",".","m","d">>

ReadmePriors ==
    {EmptyMap} \cup { [i \in {id} |-> OlderStamp] : id \in {ScenarioId, ReadmeId} }

InitScenario ==
    /\ \/ /\ config \in FilterConfigs
          /\ remote \in FilterRemotes
          /\ existingFiles = EmptyMap
       \/ /\ config \in ReadmeConfigs
          /\ remote \in ReadmeRemotes
          /\ existingFiles \in ReadmePriors
    /\ lastUsed = 0
    /\ now \in {config.updateIntervalMs - 1, config.updateIntervalMs}
    /\ mode = "first"
    /\ prevResult = EmptyMap
    /\ pc = "call"
    /\ filesToInclude = <<>>
    /\ fetchResults = EmptyMap
    /\ fetchOrder = <<>>
    /\ currentFiles = <<>>
    /\ branchInfo = NullInfo
    /\ existingPaths = EmptyMap
    /\ existingFileIds = {}
    /\ updates = EmptyMap
    /\ filesToCheck = {}
    /\ checkResults = EmptyMap
    /\ result = EmptyMap
    /\ calls = EmptyMap
    /\ opLog = EmptyMap
    /\ codec = CodecIdle

SpecScenario == InitScenario /\ [][Next]_vars

----------------------------------------------------------------------------
(* Properties *)

\* the call has returned an operation map after passing the gate
Returned == pc = "done" /\ now - lastUsed >= config.updateIntervalMs

IsDelete(m, id) == Has(m, id) /\ m[id].action = "delete"

Range(f) == { f[x] : x \in DOMAIN f }

\* C1 - interval gate: once update has left its first statement, a call with
\* now - lastUsed < updateIntervalMs has returned the empty map without any
\* remote call, and a call with now - lastUsed >= updateIntervalMs is in the
\* fetch phase or past it (the tree listing is about to be, or has been,
\* requested).
C1_IntervalGate ==
    pc \notin {"call", "codec"} =>
        IF now - lastUsed < config.updateIntervalMs
        THEN pc = "done" /\ result = EmptyMap /\ calls = EmptyMap
        ELSE pc = "getTree" \/ Has(calls, <<"getTree", <<>> >>)

C1_Witness ==
    /\ pc = "done"
    /\ now - lastUsed < config.updateIntervalMs
    /\ DOMAIN existingFiles # {}
    /\ DOMAIN remote.files # {}
    /\ calls = EmptyMap

\* C2 - delete completeness: when a call that passed the gate returns, every
\* prior identifier whose decoded path is not a path of the current snapshot is
\* in the returned map with action delete, and delete is the only operation
\* that was ever written for it.
C2_DeleteComplete ==
    Returned =>
        \A id \in DOMAIN existingFiles :
            LET d == fileIdToPath(config.owner, config.repo, id) IN
            (d.ok /\ d.path \notin PathsOf(currentFiles)) =>
                /\ IsDelete(result, id)
                /\ opLog[id] = <<"delete">>

C2_Witness ==
    /\ Returned
    /\ currentFiles # <<>>
    /\ \E id \in DOMAIN existingFiles :
         LET d == fileIdToPath(config.owner, config.repo, id) IN
         /\ d.ok
         /\ d.path \notin PathsOf(currentFiles)
         /\ IsDelete(result, id)
    /\ \E id \in DOMAIN result : result[id].action # "delete"

\* C5 - identifier round trip: for every source and every path without '-',
\* decoding the identifier of the path gives the path back.
C5_RoundTrip ==
    (codec.step = "decoded" /\ "-" \notin Range(codec.p)) =>
        (codec.decP.ok /\ codec.decP.path = codec.p)

C5_Witness ==
    /\ codec.step = "decoded"
    /\ "-" \notin Range(codec.p)
    /\ "/" \in Range(codec.p)
    /\ "-" \in Range(config.owner)
    /\ codec.decP.path = codec.p

IsAdd(m, id) == Has(m, id) /\ m[id].action = "add"

IsUpdate(m, id) == Has(m, id) /\ m[id].action = "update"

\* C3 - add completeness: when a call that passed the gate returns, every path
\* of the current snapshot whose identifier is not a prior identifier has its
\* identifier in the returned map with action add and with content made of
\* the path's own raw content; with no prior records there is one add for
\* each path of the snapshot.
C3_AddComplete ==
    Returned =>
        /\ \A i \in 1..Len(currentFiles) :
             LET f == currentFiles[i] IN
             ~Has(existingFiles, f.fileId) =>
                 /\ IsAdd(result, f.fileId)
                 /\ result[f.fileId].content.body = f.rawContent.body
        /\ existingFiles = EmptyMap =>
             Cardinality({id \in DOMAIN result : result[id].action = "add"})
                 = Len(currentFiles)

\* C4 - update strictness: when a call that passed the gate returns, an
\* identifier that is both a prior identifier and the identifier of a path of
\* the current snapshot has an update in the returned map exactly when the
\* last commit of that path is strictly newer than the prior timestamp, and
\* has no operation at all when that commit is not newer.
C4_UpdateStrict ==
    Returned =>
        \A i \in 1..Len(currentFiles) :
            LET f == currentFiles[i]
                o == getLastCommitInfoForFile(remote, f.path)
            IN  Has(existingFiles, f.fileId) =>
                  /\ IsUpdate(result, f.fileId)
                       <=> (o.ok /\ o.timestamp > existingFiles[f.fileId])
                  /\ (o.ok /\ o.timestamp <= existingFiles[f.fileId])
                       => ~Has(result, f.fileId)

\* C6 - identifier injectivity: for a fixed source, two distinct paths never
\* get the same identifier.
C6_Injective ==
    (codec.step \in {"encoded", "decoded"} /\ codec.p # codec.q) =>
        codec.idP # codec.idQ

\* C7 - foreign identifiers are orphaned: when a call that passed the gate
\* returns, every prior identifier that does not start with the prefix of the
\* active source has failed to decode and is in the returned map with action
\* delete.
C7_ForeignOrphaned ==
    Returned =>
        \A id \in DOMAIN existingFiles :
            ~StartsWith(id, IdPrefix(config.owner, config.repo)) =>
                /\ ~fileIdToPath(config.owner, config.repo, id).ok
                /\ IsDelete(result, id)

\* C7 as amended - a prior identifier without the prefix of the active source
\* is decoded to the text after its first '-' (all of it when it has no '-')
\* with '-' replaced by '/', and
\* decoding fails only when that text is empty; when a call that passed the
\* gate returns, such an identifier has a delete in the returned map when
\* decoding failed or the guessed path is not a path of the current snapshot,
\* and has no operation at all otherwise.
C7_ForeignGuessed ==
    Returned =>
        \A id \in DOMAIN existingFiles :
            ~StartsWith(id, IdPrefix(config.owner, config.repo)) =>
                LET guess == ReplaceAll(SliceFrom(id, IndexOf(id, "-") + 1), "-", "/")
                IN  IF guess = <<>> \/ guess \notin PathsOf(currentFiles)
                    THEN IsDelete(result, id)
                    ELSE ~Has(result, id)

C7_Witness ==
    /\ Returned
    /\ ForeignC \in DOMAIN existingFiles
    /\ PathC \in PathsOf(currentFiles)
    /\ ~Has(result, ForeignC)
    /\ ForeignEmpty \in DOMAIN existingFiles
    /\ IsDelete(result, ForeignEmpty)

\* C8 - phase disjointness: no identifier has its operation written more than
\* once in a cycle, by whatever phase.
C8_PhaseDisjoint ==
    \A id \in DOMAIN opLog : Len(opLog[id]) <= 1

\* C9 - idempotence: a second call with the same prior records, the same
\* remote state and the interval elapsed returns the map the first call
\* returned.
C9_Idempotent ==
    (pc = "done" /\ mode = "repeat") => result = prevResult

\* C10 - quiescence: after the host has applied every returned operation, and
\* with the remote unchanged, the next call that passes the gate returns the
\* empty map.
C10_Quiescent ==
    (Returned /\ mode = "applied") => result = EmptyMap

----------------------------------------------------------------------------
(* Failures of the remote calls *)

\* git.getTree answers 404 or fails with another error
TreeListingFails ==
    Fails(remote, "getTree404", <<>>) \/ Fails(remote, "getTreeErr", <<>>)

\* C11 - a failing tree listing aborts the cycle: once the listing has been
\* requested and has failed (the ref does not exist, or any other upstream
\* error), update has thrown: it never returns, no operation was written for
\* any identifier (no delete for a prior identifier in particular) and no
\* further remote call was made.
C11_TreeFailureAborts ==
    (TreeListingFails /\ Has(calls, <<"getTree", <<>> >>)) =>
        /\ pc = "failed"
        /\ result = EmptyMap
        /\ updates = EmptyMap
        /\ opLog = EmptyMap
        /\ DOMAIN calls = { <<"getTree", <<>> >> }

C11_Witness ==
    /\ pc = "failed"
    /\ Fails(remote, "getTree404", <<>>)
    /\ DOMAIN existingFiles # {}
    /\ DOMAIN remote.files # {}

\* repos.listCommits for `path` fails or answers with an empty list
LookupFails(path) ==
    Fails(remote, "listCommits", path) \/ Fails(remote, "noHistory", path)

\* C12 - a failing commit lookup is fail-safe: the update phase never makes
\* update throw, and when it returns, the returned map is the map of the
\* delete and add phases, unchanged, plus an update for exactly the checked
\* identifiers whose lookup succeeded with a timestamp newer than the recorded
\* one; an identifier whose lookup failed or found no history gets no
\* operation, as one whose lookup reported no change.
C12_OracleFailSafe ==
    [][ pc = "check" =>
          /\ pc' \in {"check", "done"}
          /\ pc' = "done" =>
               LET changed == {j \in filesToCheck :
                                 /\ ~LookupFails(existingPaths[j])
                                 /\ remote.files[existingPaths[j]] > existingFiles[j]}
               IN  /\ DOMAIN result' = (DOMAIN updates) \cup changed
                   /\ \A id \in DOMAIN updates : result'[id] = updates[id]
                   /\ \A j \in changed : IsUpdate(result', j)
      ]_vars

C12_Witness ==
    /\ Returned
    /\ \E i \in filesToCheck :
         /\ LookupFails(existingPaths[i])
         /\ ~Has(result, i)
         /\ \E j \in filesToCheck : j # i /\ IsUpdate(result, j)

\* the blobs of the remote tree that pass the path filter
FilteredBlobs == {p \in DOMAIN remote.files : shouldInclude(config, p)}

\* getCurrentFiles has returned
SnapshotTaken ==
    pc \in {"branchInfo", "map", "delete", "add", "select", "check", "done"}
    /\ Has(calls, <<"getTree", <<>> >>)

\* C13 - per-file fetch resilience: when the tree listing succeeded, the
\* fetch phase never makes update throw, and the snapshot it returns holds
\* exactly the filtered blobs whose content retrieval did not fail, each once
\* and with its own raw content.
C13_FetchResilient ==
    /\ (Has(calls, <<"getTree", <<>> >>) /\ ~TreeListingFails) => pc # "failed"
    /\ SnapshotTaken =>
         /\ PathsOf(currentFiles) =
              {p \in FilteredBlobs : ~Fails(remote, "getBlob", p)}
         /\ Len(currentFiles) = Cardinality(PathsOf(currentFiles))
         /\ \A i \in 1..Len(currentFiles) :
              currentFiles[i].rawContent =
                  RawContent(currentFiles[i].path, remote.files[currentFiles[i].path])

C13_Witness ==
    /\ Returned
    /\ \E p \in FilteredBlobs : Fails(remote, "getBlob", p)
    /\ currentFiles # <<>>
    /\ result # EmptyMap

----------------------------------------------------------------------------
(* The path filter *)

\* some pattern of a configured option matches the path
MatchesSome(option, path) ==
    \E i \in 1..Len(option.patterns) : minimatch(path, option.patterns[i])

\* the option holds nothing: it is not set, or it is the empty string
Absent(option) == option \in {NotConfigured, OnePattern(<<>>)}

\* C14 - path filter membership: every file of the snapshot is a blob of the
\* listed tree whose path matches at least one include pattern (any path
\* does when no include is configured) and no ignore pattern (none does when
\* no ignore is configured); with include **/*.md and ignore drafts/** over
\* the tree docs/x.md, drafts/y.md, z.txt, all retrieved, the snapshot is
\* exactly docs/x.md.
C14_FilterMembership ==
    SnapshotTaken =>
        /\ \A p \in PathsOf(currentFiles) :
             /\ \E k \in 1..Len(getRepoTree(remote).tree) :
                  /\ getRepoTree(remote).tree[k].path = p
                  /\ getRepoTree(remote).tree[k].type = "blob"
             /\ Absent(config.include) \/ MatchesSome(config.include, p)
             /\ Absent(config.ignore) \/ ~MatchesSome(config.ignore, p)
        /\ ( /\ config.include = PatternArray(<<MdAnywhere>>)
             /\ config.ignore = PatternArray(<<DraftsAll>>)
             /\ DOMAIN remote.files = {PathDocsX, PathDraftsY, PathZ}
             /\ remote.faults = {} )
           => PathsOf(currentFiles) = {PathDocsX}

C14_Witness ==
    /\ Returned
    /\ config.include = PatternArray(<<MdAnywhere>>)
    /\ config.ignore = PatternArray(<<DraftsAll>>)
    /\ DOMAIN remote.files = {PathDocsX, PathDraftsY, PathZ}
    /\ remote.faults = {}
    /\ PathsOf(currentFiles) = {PathDocsX}
    /\ IsAdd(result, FileId(config.owner, config.repo, PathDocsX))

----------------------------------------------------------------------------
(* Content of the operations *)

\* the identifiers returned with action add
AddedIn(m) == {id \in DOMAIN m : m[id].action = "add"}

\* the query of the branch head fails
BranchQueryFails ==
    Fails(remote, "getBranch", <<>>) \/ Fails(remote, "getCommit", <<>>)

\* number of calls of one kind made by the running call
CallCount(kind) ==
    IF Has(calls, <<kind, <<>> >>) THEN calls[<<kind, <<>> >>] ELSE 0

\* the content is the raw content of a file of the snapshot that has the
\* identifier
RawOfSnapshot(content, id) ==
    \E i \in 1..Len(currentFiles) :
        currentFiles[i].fileId = id /\ content = currentFiles[i].rawContent

----------------------------------------------------------------------------
(* Frame *)

\* C16 - the prior records are read-only: no step of update, from its first
\* statement to its return or its throw, changes the host's map from
\* identifier to timestamp; identifiers whose decoding failed and identifiers
\* returned as delete stay in it.
C16_PriorReadOnly ==
    [][ pc \notin {"done", "failed"} => existingFiles' = existingFiles ]_vars

C16_Witness ==
    /\ Returned
    /\ mode = "first"
    /\ IsDelete(result, ForeignEmpty)
    /\ Has(existingFiles, ForeignEmpty)
    /\ \E id \in existingFileIds : IsDelete(result, id) /\ Has(existingFiles, id)

----------------------------------------------------------------------------
(* The update scenario *)

\* the source is a/b, the snapshot is the one path README.md and the commit
\* lookup answers 2000 for it
ReadmeScenario ==
    /\ Returned
    /\ config.owner = <<"a">> /\ config.repo = <<"b">>
    /\ PathsOf(currentFiles) = {PathReadme}
    /\ ~LookupFails(PathReadme)
    /\ remote.files[PathReadme] = 2000

\* the map holds one operation: an update of `id` with the content of
\* README.md
OneUpdateOf(m, id) ==
    /\ DOMAIN m = {id}
    /\ m[id].action = "update"
    /\ m[id].content.body = RawContent(PathReadme, 2000).body

\* C17 as stated - with the prior records {repo-a-b-readme-md: 1000} the
\* scenario returns exactly one operation, an update for repo-a-b-readme-md.
C17_ScenarioAsStated ==
    (ReadmeScenario /\ existingFiles = [i \in {ScenarioId} |-> 1000]) =>
        OneUpdateOf(result, ScenarioId)

\* C17 - update scenario: for the source a/b, with the prior records
\* {github-repo-a-b-README.md: 1000}, a snapshot that is the one path
\* README.md and a commit lookup answering 2000 for README.md, the call
\* returns exactly one operation: an update, with the content of README.md,
\* for github-repo-a-b-README.md.
C17_ScenarioWithCodeId ==
    (ReadmeScenario /\ existingFiles = [i \in {ReadmeId} |-> 1000]) =>
        OneUpdateOf(result, ReadmeId)

C17_Witness ==
    /\ ReadmeScenario
    /\ existingFiles = [i \in {ReadmeId} |-> 1000]
    /\ OneUpdateOf(result, ReadmeId)
    /\ Has(calls, <<"listCommits", PathReadme>>)

----------------------------------------------------------------------------
(* Soundness of delete *)

\* C18 - delete soundness: when a call returns, a prior identifier has the
\* action delete only if no file of the current snapshot has that
\* identifier; a recorded file that is still in the snapshot under its
\* identifier is not reported as deleted, whatever its path.
C18_DeleteSound ==
    Returned =>
        \A id \in DOMAIN existingFiles :
            IsDelete(result, id) =>
                \A k \in 1..Len(currentFiles) : currentFiles[k].fileId # id

\* C19 - a degraded snapshot is not taken as complete: when a call returns,
\* a blob of the remote tree that passes the filter and is recorded by the
\* host, but whose content retrieval failed in this call, has no delete for
\* its identifier.
C19_NoDeleteOnFailedFetch ==
    Returned =>
        \A p \in FilteredBlobs :
            ( /\ Has(existingFiles, FileId(config.owner, config.repo, p))
              /\ Fails(remote, "getBlob", p) )
            => ~IsDelete(result, FileId(config.owner, config.repo, p))

----------------------------------------------------------------------------
(* Concurrent fetches and lookups *)

\* the snapshot of a call whose fetches resolve in the order of the tree
SequentialFiles ==
    LET listing == getRepoTree(remote) IN
    BuildFiles(config, FilesToInclude(config, listing.tree),
               [p \in DOMAIN remote.files |->
                   IF Fails(remote, "getBlob", p)
                   THEN [ok |-> FALSE, rawContent |-> NoContent]
                   ELSE [ok |-> TRUE, rawContent |-> fetchBlobContent(remote, p)]])

\* the operation map of a call after its delete and add phases
SequentialBeforeCheck ==
    LET m == MapExisting(config, existingFiles)
        files == SequentialFiles
        info == IF config.shouldIncludeHeader
                THEN getBranchInfo(remote, now) ELSE NullInfo
        gone == m.thrown \cup
                DeletedIds(m.existingFileIds, m.existingPaths, PathsOf(files))
    IN  ApplyOps([id \in gone |-> [action |-> "delete", content |-> NoContent]],
                 AddedOps(config, info, files, m.existingFileIds))

\* the operation map of a call whose lookups resolve one after the other
SequentialResult ==
    LET m == MapExisting(config, existingFiles)
        files == SequentialFiles
        before == SequentialBeforeCheck
        toCheck == FilesToCheck(m.existingFileIds, before, m.existingPaths, files)
        changed == {id \in toCheck :
                      CheckFile(config, id, m.existingPaths[id], existingFiles[id],
                                getLastCommitInfoForFile(remote, m.existingPaths[id]),
                                files).found}
    IN  [id \in (DOMAIN before) \cup changed |->
            IF id \in changed
            THEN [action |-> "update",
                  content |-> CheckFile(config, id, m.existingPaths[id],
                                        existingFiles[id],
                                        getLastCommitInfoForFile(remote, m.existingPaths[id]),
                                        files).content]
            ELSE before[id]]

\* a commit lookup of the update phase has been started
LookupStarted == \E k \in DOMAIN calls : k[1] = "listCommits"

\* C20 - order independence of the concurrent work: whatever the order in
\* which the content fetches and the commit lookups resolve, a call returns
\* the map a sequential run returns for the same inputs and outcomes; while
\* fetches are pending nothing is in the snapshot or in the operation map,
\* and the snapshot, when getCurrentFiles returns it, is that of the
\* sequential run and holds a result for every fetch; while
\* lookups are pending the operation map is that of the delete and add
\* phases, no update is in it, and the call returns only with a result for
\* every lookup; no lookup starts before the delete and add phases are done.
C20_OrderIndependent ==
    /\ Returned => result = SequentialResult
    /\ pc = "fetch" => (currentFiles = <<>> /\ updates = EmptyMap)
    /\ (pc = "branchInfo" /\ Has(calls, <<"getTree", <<>> >>)) =>
         /\ currentFiles = SequentialFiles
         /\ \A i \in 1..Len(filesToInclude) : Has(fetchResults, filesToInclude[i].path)
    /\ pc = "check" => (updates = SequentialBeforeCheck /\ result = EmptyMap)
    /\ (pc = "done" /\ filesToCheck # {}) =>
         \A id \in filesToCheck : Has(checkResults, id)
    /\ LookupStarted => (pc \in {"check", "done"} /\ filesToCheck # {})

C20_Witness ==
    /\ Returned
    /\ Len(currentFiles) = 2
    /\ Cardinality(filesToCheck) = 2
    /\ Cardinality(DOMAIN checkResults) = 2
    /\ \E id \in filesToCheck : IsUpdate(result, id)

----------------------------------------------------------------------------
(* The update phase *)

\* number of repos.listCommits calls the running call has made for `path`
LookupsOf(path) ==
    IF Has(calls, <<"listCommits", path>>) THEN calls[<<"listCommits", path>>] ELSE 0

\* the paths of the snapshot whose file has the identifier
PathsWithId(id) ==
    { currentFiles[k].path : k \in {j \in 1..Len(currentFiles) : currentFiles[j].fileId = id} }

\* C21 - content and cost of an update: when a call returns, the commit
\* lookup was made exactly once for every identifier that is both recorded
\* by the host and the identifier of a file of the snapshot, there were no
\* other lookups, and none for an identifier returned as delete or add; every
\* update holds the raw content of a path of the snapshot that has its
\* identifier, with the header of that path's last commit (its revision and
\* its timestamp, not those of the branch head) when includeHeader is true
\* and without header when it is false.
C21_UpdateContentAndCost ==
    Returned =>
        LET both == {id \in DOMAIN existingFiles : PathsWithId(id) # {}} IN
        /\ \A id \in both :
             \E p \in PathsWithId(id) :
                 /\ LookupsOf(p) = 1
                 /\ \A q \in PathsWithId(id) \ {p} : LookupsOf(q) = 0
        /\ Cardinality({k \in DOMAIN calls : k[1] = "listCommits"}) = Cardinality(both)
        /\ \A id \in DOMAIN result :
             result[id].action \in {"delete", "add"} =>
                 \A p \in PathsWithId(id) : LookupsOf(p) = 0
        /\ \A id \in DOMAIN result :
             result[id].action = "update" =>
                 \E p \in PathsWithId(id) :
                     /\ LookupsOf(p) = 1
                     /\ result[id].content.body = RawContent(p, remote.files[p]).body
                     /\ IF config.shouldIncludeHeader
                        THEN /\ result[id].content.annotated
                             /\ result[id].content.path = p
                             /\ result[id].content.sha = CommitSha(remote.files[p])
                             /\ result[id].content.date = ToISOString(remote.files[p])
                        ELSE result[id].content = RawContent(p, remote.files[p])

====
